---- MODULE Spec2Model ----
(***************************************************************************)
(* DataframeConversionValidator (src/DFCV.py): a comparator built from two *)
(* dataframes and a primary-key column name.  Construction counts nulls   *)
(* per column, lists the columns whose null counts differ, inner-joins    *)
(* the two dataframes on the key and keeps the joined rows whose null     *)
(* counts over those columns differ; the query methods read that state.   *)
(*                                                                         *)
(* A dataframe is a record [columns |-> sequence of column names,          *)
(* rows |-> bag of rows]; a row is a function from column names to cell    *)
(* values; the cell value Null is SQL NULL.                                *)
(***************************************************************************)
EXTENDS Integers, Sequences, FiniteSets, Bags, TLC

\* ---------------------------------------------------------------- bounds
\* Most rows in a dataframe.
MaxRows == 2

\* ---------------------------------------------------------------- values
Null == 0
KeyValues == {1, 2}
DataValues == {1}

Range(s) == {s[i] : i \in DOMAIN s}

\* Schemas of the dataframes handed to the constructor.
BeforeSchemas == {<<"b", "pk", "a">>}
AfterSchemas == {<<"pk", "a", "b">>, <<"pk", "a">>}
PrimaryKeyNames == {"pk", "missing"}

CellValues(c) == IF c = "pk" THEN KeyValues \cup {Null} ELSE DataValues \cup {Null}

RowsOf(columns) ==
  {r \in [Range(columns) -> KeyValues \cup DataValues \cup {Null}] :
      \A c \in Range(columns) : r[c] \in CellValues(c)}

RECURSIVE BagsUpTo(_, _)
BagsUpTo(R, n) ==
  IF n = 0 THEN {EmptyBag}
  ELSE LET P == BagsUpTo(R, n - 1)
       IN  P \cup {b (+) SetToBag({r}) : b \in P, r \in R}

DataFrames(schemas) ==
  UNION {{[columns |-> cs, rows |-> b] : b \in BagsUpTo(RowsOf(cs), MaxRows)} :
            cs \in schemas}

BeforeFrames == DataFrames(BeforeSchemas)
AfterFrames == DataFrames(AfterSchemas)

\* A row and the row a conversion makes of it: the key kept, cells turned NULL.
RowConversions ==
  {rt \in RowsOf(<<"pk", "a", "b">>) \X RowsOf(<<"pk", "a", "b">>) :
      /\ rt[2]["pk"] = rt[1]["pk"]
      /\ \A c \in {"a", "b"} : rt[2][c] = rt[1][c] \/ rt[2][c] = Null}

\* The rows of a dataframe of at most n rows and of what a conversion makes
\* of it, row by row.
RECURSIVE Conversions(_)
Conversions(n) ==
  IF n = 0 THEN {<<EmptyBag, EmptyBag>>}
  ELSE LET P == Conversions(n - 1)
       IN  P \cup {<<p[1] (+) SetToBag({rt[1]}), p[2] (+) SetToBag({rt[2]})>> :
                       p \in P, rt \in RowConversions}

\* The pairs of dataframes handed to the constructor: every pair of at most
\* MaxRows rows together, and every dataframe of at most MaxRows rows with
\* each of its conversions.
Inputs ==
  {io \in BeforeFrames \X AfterFrames :
      BagCardinality(io[1].rows) + BagCardinality(io[2].rows) <= MaxRows}
  \cup {<<[columns |-> <<"b", "pk", "a">>, rows |-> p[1]],
          [columns |-> <<"pk", "a", "b">>, rows |-> p[2]]>> :
            p \in Conversions(MaxRows)}

EmptyFrame == [columns |-> <<>>, rows |-> EmptyBag]

\* ------------------------------------------------- dataframe primitives
\* df.where(keep): the rows whose value of the boolean column `keep` is true,
\* with their multiplicities.
Where(B, keep) == [x \in {y \in DOMAIN B : keep[y]} |-> B[x]]

\* df.count()
Count(B) == BagCardinality(B)

\* ---------------------------------------------------------------- state
VARIABLES
  pc,                        \* "new", "ok", or the exception __init__ raised
  steps,                     \* the statements of __init__ executed, in order
  before_df, after_df,
  nulls_before_df, nulls_after_df,
  differing_columns,         \* sequence of [column_name, difference]
  column_names,
  primary_key_column,
  bad_row_column_comparison, \* bag of joined rows
  args,                      \* the arguments of the constructor call
  printed,                   \* what the last call wrote to standard output
  result                     \* what the last method call returned

vars == <<pc, steps, before_df, after_df, nulls_before_df, nulls_after_df,
          differing_columns, column_names, primary_key_column,
          bad_row_column_comparison, args, printed, result>>

fields == <<before_df, after_df, nulls_before_df, nulls_after_df,
            differing_columns, column_names, primary_key_column,
            bad_row_column_comparison>>

NoResult == [op |-> "none"]
NoArgs == [before |-> EmptyFrame, after |-> EmptyFrame,
           primary_key_column |-> "", quiet |-> FALSE]

\* -------------------------------------------------------------- helpers
\* count_nulls(df).collect()[0].asDict(): per column, the rows whose cell is NULL.
count_nulls(df) ==
  [c \in Range(df.columns) |->
      Count(Where(df.rows, [r \in DOMAIN df.rows |-> r[c] = Null]))]

\* ColumnDifferences keeping only the columns that gained nulls.
ColumnDifferencesGained(names, nb, na) ==
  LET differs(c) == na[c] - nb[c] > 0
      kept == SelectSeq(names, differs)
  IN  [i \in DOMAIN kept |->
         [column_name |-> kept[i], difference |-> na[kept[i]] - nb[kept[i]]]]

\* Line 102: the columns of column_names whose null counts differ, in order.
ColumnDifferences(names, nb, na) ==
  LET differs(c) == na[c] - nb[c] # 0
      kept == SelectSeq(names, differs)
  IN  [i \in DOMAIN kept |->
         [column_name |-> kept[i], difference |-> na[kept[i]] - nb[kept[i]]]]

different_row_columns(dc) == [i \in DOMAIN dc |-> dc[i].column_name]

\* reduce(add, [col.isNull().cast('int') for col in cols]) on one side's row.
NullSum(row, cols) == Cardinality({i \in DOMAIN cols : row[cols[i]] = Null})

\* Merged with a null-safe key comparison: NULL keys match each other.
MergedNullSafe(b, a, pk) ==
  LET pairs == {[left |-> r, right |-> s] : r \in DOMAIN b.rows, s \in DOMAIN a.rows}
      match(p) == p.left[pk] = p.right[pk]
  IN  [p \in {q \in pairs : match(q)} |-> b.rows[p.left] * a.rows[p.right]]

\* Merged joining distinct rows: equal rows are paired once.
MergedDistinct(b, a, pk) ==
  LET pairs == {[left |-> r, right |-> s] : r \in DOMAIN b.rows, s \in DOMAIN a.rows}
      match(p) == p.left[pk] # Null /\ p.right[pk] # Null /\ p.left[pk] = p.right[pk]
  IN  [p \in {q \in pairs : match(q)} |-> 1]

\* Line 107: inner join on the key; NULL keys never compare equal.
Merged(b, a, pk) ==
  LET pairs == {[left |-> r, right |-> s] : r \in DOMAIN b.rows, s \in DOMAIN a.rows}
      match(p) == p.left[pk] # Null /\ p.right[pk] # Null /\ p.left[pk] = p.right[pk]
  IN  [p \in {q \in pairs : match(q)} |-> b.rows[p.left] * a.rows[p.right]]

\* BadRowColumnComparison filtering on leftNulls > rightNulls.
BadRowColumnComparisonGreater(b, a, pk, dc) ==
  LET cols == different_row_columns(dc)
      withNulls(p) == [left |-> p.left, right |-> p.right,
                       leftNulls |-> NullSum(p.left, cols),
                       rightNulls |-> NullSum(p.right, cols)]
      merged == BagOfAll(withNulls, Merged(b, a, pk))
      project(m) == [pk |-> m.left[pk],
                     left |-> [c \in Range(cols) |-> m.left[c]],
                     right |-> [c \in Range(cols) |-> m.right[c]],
                     leftNulls |-> m.leftNulls,
                     rightNulls |-> m.rightNulls]
  IN  BagOfAll(project,
               Where(merged, [m \in DOMAIN merged |-> m.leftNulls > m.rightNulls]))

\* Lines 108-117: the two null counts, the filter and the projection.
BadRowColumnComparison(b, a, pk, dc) ==
  LET cols == different_row_columns(dc)
      withNulls(p) == [left |-> p.left, right |-> p.right,
                       leftNulls |-> NullSum(p.left, cols),
                       rightNulls |-> NullSum(p.right, cols)]
      merged == BagOfAll(withNulls, Merged(b, a, pk))
      project(m) == [pk |-> m.left[pk],
                     left |-> [c \in Range(cols) |-> m.left[c]],
                     right |-> [c \in Range(cols) |-> m.right[c]],
                     leftNulls |-> m.leftNulls,
                     rightNulls |-> m.rightNulls]
  IN  BagOfAll(project,
               Where(merged, [m \in DOMAIN merged |-> m.leftNulls # m.rightNulls]))

bad_row_count(bad) == Count(bad)

bad_column_count(dc) == Len(different_row_columns(dc))

\* summary(): the text printed, as the values it interpolates.
SummaryText(b, bad, dc) ==
  [original_rows |-> Count(b.rows),
   original_columns |-> Len(b.columns),
   problem_rows |-> bad_row_count(bad),
   problem_columns |-> bad_column_count(dc),
   details |-> [i \in DOMAIN dc |-> <<dc[i].column_name, dc[i].difference>>]]

\* _get_pks_of_bad_rows(): one key per row of the comparison.
get_pks_of_bad_rows(bad) ==
  LET key(x) == x.pk IN BagOfAll(key, bad)

\* _get_dataframe_by_pk that never projects.
get_dataframe_by_pk_AllColumns(df, pks, full_row, pk, dc) ==
  LET isin == [r \in DOMAIN df.rows |-> r[pk] # Null /\ BagIn(r[pk], pks)]
  IN  [columns |-> df.columns, rows |-> Where(df.rows, isin)]

\* _get_dataframe_by_pk that does not filter when full rows are asked for.
get_dataframe_by_pk_Unfiltered(df, pks, full_row, pk, dc) ==
  LET isin == [r \in DOMAIN df.rows |-> r[pk] # Null /\ BagIn(r[pk], pks)]
      kept == Where(df.rows, isin)
      cols == <<pk>> \o different_row_columns(dc)
      select(r) == [c \in Range(cols) |-> r[c]]
  IN  IF full_row
        THEN [columns |-> df.columns, rows |-> df.rows]
        ELSE [columns |-> cols, rows |-> BagOfAll(select, kept)]

\* _get_dataframe_by_pk(df, pks, full_row)
get_dataframe_by_pk(df, pks, full_row, pk, dc) ==
  LET isin == [r \in DOMAIN df.rows |-> r[pk] # Null /\ BagIn(r[pk], pks)]
      kept == Where(df.rows, isin)
      cols == <<pk>> \o different_row_columns(dc)
      select(r) == [c \in Range(cols) |-> r[c]]
  IN  IF full_row
        THEN [columns |-> df.columns, rows |-> kept]
        ELSE [columns |-> cols, rows |-> BagOfAll(select, kept)]

\* ----------------------------------------------------------------- Init
Init ==
  /\ pc = "new"
  /\ steps = <<>>
  /\ before_df = EmptyFrame
  /\ after_df = EmptyFrame
  /\ nulls_before_df = <<>>
  /\ nulls_after_df = <<>>
  /\ differing_columns = <<>>
  /\ column_names = <<>>
  /\ primary_key_column = ""
  /\ bad_row_column_comparison = EmptyBag
  /\ args = NoArgs
  /\ printed = <<>>
  /\ result = NoResult

\* ------------------------------------------------------------- __init__
\* Outcome with the key checked after the null counts are compared.
OutcomeLateKeyCheck(b, a, pk, resolves) ==
  LET nb == count_nulls(b)
      na == count_nulls(a)
      dc == ColumnDifferences(b.columns, nb, na)
  IN  IF \E c \in Range(b.columns) : c \notin DOMAIN na THEN "KeyError"
      ELSE IF pk \notin Range(b.columns) THEN "LookupError"
      ELSE IF dc = <<>> THEN "TypeError"
      ELSE IF pk \in Range(different_row_columns(dc)) /\ ~resolves
        THEN "AnalysisException"
      ELSE "ok"

\* How far __init__ gets: "ok", or the exception it raises.
\* resolves: whether the engine resolves "right.<key>" after a join on the
\* key column name; it is asked only when the key column is itself
\* divergent, and the answer depends on the engine's version.
Outcome(b, a, pk, resolves) ==
  LET nb == count_nulls(b)
      na == count_nulls(a)
      dc == ColumnDifferences(b.columns, nb, na)
  IN  IF pk \notin Range(b.columns) THEN "LookupError"                   \* line 96
      ELSE IF \E c \in Range(b.columns) : c \notin DOMAIN na
        THEN "KeyError"                                                  \* line 102
      ELSE IF dc = <<>> THEN "TypeError"                                 \* line 109
      ELSE IF pk \in Range(different_row_columns(dc)) /\ ~resolves
        THEN "AnalysisException"                                         \* line 111
      ELSE "ok"

Construct(b, a, pk, q, resolves) ==
  LET nb == count_nulls(b)
      na == count_nulls(a)
      dc == ColumnDifferences(b.columns, nb, na)
      bad == BadRowColumnComparison(b, a, pk, dc)
      outcome == Outcome(b, a, pk, resolves)
      counted == outcome # "LookupError"
      listed == outcome \in {"TypeError", "AnalysisException", "ok"}
  IN  /\ pc' = outcome
      /\ args' = [before |-> b, after |-> a, primary_key_column |-> pk, quiet |-> q]
      /\ column_names' = b.columns
      /\ before_df' = IF counted THEN b ELSE before_df
      /\ after_df' = IF counted THEN a ELSE after_df
      /\ nulls_before_df' = IF counted THEN nb ELSE nulls_before_df
      /\ nulls_after_df' = IF counted THEN na ELSE nulls_after_df
      /\ differing_columns' = IF listed THEN dc ELSE differing_columns
      /\ primary_key_column' = IF listed THEN pk ELSE primary_key_column
      /\ bad_row_column_comparison' =
           IF outcome = "ok" THEN bad ELSE bad_row_column_comparison
      /\ printed' = IF outcome = "ok" /\ ~q
                      THEN <<SummaryText(b, bad, dc)>>                   \* line 119
                      ELSE <<>>
      /\ steps' = <<"column_names">>
                  \o (IF counted THEN <<"count_nulls">> ELSE <<>>)
                  \o (IF listed THEN <<"differing_columns", "join">> ELSE <<>>)
                  \o (IF outcome = "ok" THEN <<"bad_row_column_comparison">> ELSE <<>>)
                  \o (IF outcome = "ok" /\ ~q THEN <<"summary">> ELSE <<>>)
      /\ result' = NoResult

\* -------------------------------------------------------------- queries
Summary ==
  /\ pc = "ok"
  /\ printed' = <<SummaryText(before_df, bad_row_column_comparison,
                              differing_columns)>>
  /\ result' = [op |-> "summary"]
  /\ UNCHANGED <<pc, steps, fields, args>>

DifferentRowColumns ==
  /\ pc = "ok"
  /\ result' = [op |-> "different_row_columns",
                value |-> different_row_columns(differing_columns)]
  /\ printed' = <<>>
  /\ UNCHANGED <<pc, steps, fields, args>>

BadRowCount ==
  /\ pc = "ok"
  /\ result' = [op |-> "bad_row_count",
                value |-> bad_row_count(bad_row_column_comparison)]
  /\ printed' = <<>>
  /\ UNCHANGED <<pc, steps, fields, args>>

BadColumnCount ==
  /\ pc = "ok"
  /\ result' = [op |-> "bad_column_count",
                value |-> bad_column_count(differing_columns)]
  /\ printed' = <<>>
  /\ UNCHANGED <<pc, steps, fields, args>>

original_problem_rows(full_row) ==
  get_dataframe_by_pk(before_df, get_pks_of_bad_rows(bad_row_column_comparison),
                      full_row, primary_key_column, differing_columns)

converted_problem_rows(full_row) ==
  get_dataframe_by_pk(after_df, get_pks_of_bad_rows(bad_row_column_comparison),
                      full_row, primary_key_column, differing_columns)

\* OriginalProblemRows that keeps the filtered rows as before_df.
OriginalProblemRowsKept(full_row) ==
  /\ pc = "ok"
  /\ result' = [op |-> "original_problem_rows", full_row |-> full_row,
                value |-> original_problem_rows(full_row)]
  /\ before_df' = [before_df EXCEPT !.rows = original_problem_rows(TRUE).rows]
  /\ printed' = <<>>
  /\ UNCHANGED <<pc, steps, after_df, nulls_before_df, nulls_after_df,
                 differing_columns, column_names, primary_key_column,
                 bad_row_column_comparison, args>>

OriginalProblemRows(full_row) ==
  /\ pc = "ok"
  /\ result' = [op |-> "original_problem_rows", full_row |-> full_row,
                value |-> original_problem_rows(full_row)]
  /\ printed' = <<>>
  /\ UNCHANGED <<pc, steps, fields, args>>

ConvertedProblemRows(full_row) ==
  /\ pc = "ok"
  /\ result' = [op |-> "converted_problem_rows", full_row |-> full_row,
                value |-> converted_problem_rows(full_row)]
  /\ printed' = <<>>
  /\ UNCHANGED <<pc, steps, fields, args>>

Query ==
  \/ Summary
  \/ DifferentRowColumns
  \/ BadRowCount
  \/ BadColumnCount
  \/ \E full_row \in BOOLEAN : OriginalProblemRows(full_row)
  \/ \E full_row \in BOOLEAN : ConvertedProblemRows(full_row)

New ==
  /\ pc = "new"
  /\ \E io \in Inputs, pk \in PrimaryKeyNames, q \in BOOLEAN, resolves \in BOOLEAN :
       Construct(io[1], io[2], pk, q, resolves)

Next == New \/ Query

Spec == Init /\ [][Next]_vars

\* ------------------------------------------------- vocabulary of the claims
\* One element per row of a bag, counted with its multiplicity.
Copies(B) == UNION {{<<r, i>> : i \in 1..B[r]} : r \in DOMAIN B}

\* The NULL cells of column c in dataframe df.
NullCells(df, c) == Cardinality({x \in Copies(df.rows) : x[1][c] = Null})

\* The NULL cells of row r among the columns in the set cs.
NullsAmong(r, cs) == Cardinality({c \in cs : r[c] = Null})

Position(s, e) == CHOOSE i \in DOMAIN s : s[i] = e

DivergentNames == {differing_columns[i].column_name : i \in DOMAIN differing_columns}

\* The pairs (before-row, after-row) with equal, non-NULL key.
JoinedPairs ==
  {xy \in Copies(before_df.rows) \X Copies(after_df.rows) :
      /\ xy[1][1][primary_key_column] # Null
      /\ xy[1][1][primary_key_column] = xy[2][1][primary_key_column]}

\* The joined pairs whose null counts over the divergent columns differ.
BadPairs ==
  {xy \in JoinedPairs :
      NullsAmong(xy[1][1], DivergentNames) # NullsAmong(xy[2][1], DivergentNames)}

\* The row of the comparison a pair of rows makes.
ComparisonRow(xy) ==
  [pk |-> xy[1][1][primary_key_column],
   left |-> [c \in DivergentNames |-> xy[1][1][c]],
   right |-> [c \in DivergentNames |-> xy[2][1][c]],
   leftNulls |-> NullsAmong(xy[1][1], DivergentNames),
   rightNulls |-> NullsAmong(xy[2][1], DivergentNames)]

KeysOf(df, pk) == {r[pk] : r \in DOMAIN df.rows}

\* The arguments the specification calls valid: the key is a column of
\* `before` and `after` has every column of `before`.
ValidArgs ==
  /\ args.primary_key_column \in Range(args.before.columns)
  /\ Range(args.before.columns) \subseteq Range(args.after.columns)

\* ------------------------------------------------------------------ C1
\* C1: after a successful construction the divergent-column list holds
\* exactly the columns of `before` whose null counts differ, each with
\* delta = nulls_after - nulls_before # 0, each once, in `before`'s order.
DivergentColumnsExact ==
  pc = "ok" =>
    /\ \A i \in DOMAIN differing_columns :
         LET d == differing_columns[i]
         IN  /\ d.column_name \in Range(before_df.columns)
             /\ d.difference = NullCells(after_df, d.column_name)
                                 - NullCells(before_df, d.column_name)
             /\ d.difference # 0
    /\ \A c \in Range(before_df.columns) \ DivergentNames :
         NullCells(after_df, c) = NullCells(before_df, c)
    /\ \A i, j \in DOMAIN differing_columns :
         i < j =>
           /\ differing_columns[i].column_name # differing_columns[j].column_name
           /\ Position(before_df.columns, differing_columns[i].column_name)
                < Position(before_df.columns, differing_columns[j].column_name)

\* Two columns diverge, one gaining and one losing nulls, a third does not.
WitnessC1 ==
  /\ pc = "ok"
  /\ Len(differing_columns) = 2
  /\ differing_columns[1].difference < 0
  /\ differing_columns[2].difference > 0
  /\ "pk" \notin DivergentNames

\* ------------------------------------------------------------------ C2
\* C2: the bad-row comparison holds exactly the pairs of a before-row and an
\* after-row with equal key whose null counts over the divergent columns
\* differ, each carrying the two counts; a key of one dataframe only is absent.
BadRowsExact ==
  pc = "ok" =>
    /\ \A x \in DOMAIN bad_row_column_comparison \cup {ComparisonRow(xy) : xy \in BadPairs} :
         CopiesIn(x, bad_row_column_comparison)
           = Cardinality({xy \in BadPairs : ComparisonRow(xy) = x})
    /\ \A x \in DOMAIN bad_row_column_comparison :
         /\ x.leftNulls # x.rightNulls
         /\ x.leftNulls = NullsAmong(x.left, DivergentNames)
         /\ x.rightNulls = NullsAmong(x.right, DivergentNames)
         /\ x.pk \in KeysOf(before_df, primary_key_column)
                       \cap KeysOf(after_df, primary_key_column)

\* Two rows on each side: a bad pair and a joined pair that is not bad.
WitnessC2 ==
  /\ pc = "ok"
  /\ BadPairs # {}
  /\ JoinedPairs # BadPairs
  /\ Cardinality({xy[1][1][primary_key_column] : xy \in JoinedPairs}) = 2

\* ------------------------------------------------------------------ C3
\* C3: a key that is no column of `before` makes construction raise
\* LookupError before anything else is done: no null count, no join, no
\* summary whatever `quiet` is, and no method of the instance can be called.
MissingKeyFailsFirst ==
  /\ (pc # "new" /\ args.primary_key_column \notin Range(args.before.columns))
       => pc = "LookupError"
  /\ pc = "LookupError" =>
       /\ args.primary_key_column \notin Range(args.before.columns)
       /\ steps = <<"column_names">>
       /\ nulls_before_df = <<>>
       /\ nulls_after_df = <<>>
       /\ bad_row_column_comparison = EmptyBag
       /\ printed = <<>>
       /\ ~ENABLED Query

\* The key is missing and the summary was asked for.
WitnessC3 ==
  /\ pc = "LookupError"
  /\ ~args.quiet
  /\ BagCardinality(args.before.rows) > 0
  /\ BagCardinality(args.after.rows) > 0

\* ------------------------------------------------------------------ C4
\* No key value occurs twice in the dataframe.
UniqueKeys(df, pk) ==
  \A k \in KeyValues : Cardinality({x \in Copies(df.rows) : x[1][pk] = k}) <= 1

ProblemRowsCall ==
  /\ pc = "ok"
  /\ result.op \in {"original_problem_rows", "converted_problem_rows"}

OnlyKeyAndDivergentColumns ==
  /\ Range(result.value.columns) = {primary_key_column} \cup DivergentNames
  /\ \A r \in DOMAIN result.value.rows :
       DOMAIN r = {primary_key_column} \cup DivergentNames

\* C4 as claimed: original_problem_rows(full_row=False) and
\* converted_problem_rows(full_row=False) each return exactly bad_row_count()
\* rows, of the key column and the divergent columns only.
ProblemRowsMatchBadRowCount ==
  (ProblemRowsCall /\ ~result.full_row) =>
    /\ Cardinality(Copies(result.value.rows)) = bad_row_count(bad_row_column_comparison)
    /\ OnlyKeyAndDivergentColumns

\* C4 as amended: the same, for comparators in which no key value occurs more
\* than once in `before` or in `after`.
ProblemRowsMatchBadRowCountUniqueKeys ==
  (/\ ProblemRowsCall
   /\ ~result.full_row
   /\ UniqueKeys(before_df, primary_key_column)
   /\ UniqueKeys(after_df, primary_key_column)) =>
    /\ Cardinality(Copies(result.value.rows)) = bad_row_count(bad_row_column_comparison)
    /\ OnlyKeyAndDivergentColumns

\* Unique keys, two rows before, one of them a problem row, one column not
\* divergent.
WitnessC4 ==
  /\ ProblemRowsCall
  /\ ~result.full_row
  /\ result.op = "converted_problem_rows"
  /\ UniqueKeys(before_df, primary_key_column)
  /\ UniqueKeys(after_df, primary_key_column)
  /\ BagCardinality(before_df.rows) = 2
  /\ BagCardinality(result.value.rows) = 1
  /\ Cardinality(DivergentNames) = 1

\* ------------------------------------------------------------------ C5
\* `after` is `before` with some non-NULL cells turned NULL: the same keys,
\* none NULL, each once in each dataframe.
ConversionOnly(b, a, pk) ==
  /\ pk \in Range(b.columns)
  /\ Range(b.columns) = Range(a.columns)
  /\ Null \notin KeysOf(b, pk) \cup KeysOf(a, pk)
  /\ KeysOf(b, pk) = KeysOf(a, pk)
  /\ UniqueKeys(b, pk)
  /\ UniqueKeys(a, pk)
  /\ \A r \in DOMAIN b.rows, t \in DOMAIN a.rows :
       r[pk] = t[pk] =>
         \A c \in Range(b.columns) : t[c] = r[c] \/ (r[c] # Null /\ t[c] = Null)

\* The keys of the rows in which a cell became NULL.
NulledKeys(b, a, pk) ==
  {r[pk] : r \in {x \in DOMAIN b.rows :
                    \E t \in DOMAIN a.rows, c \in Range(b.columns) :
                       t[pk] = x[pk] /\ x[c] # Null /\ t[c] = Null}}

\* The rows of the call's result are the rows of df with the keys K,
\* cell for cell.
ReturnsRowsOf(df, K, pk) ==
  /\ Cardinality(Copies(result.value.rows)) = Cardinality(K)
  /\ {x[pk] : x \in DOMAIN result.value.rows} = K
  /\ \A x \in DOMAIN result.value.rows :
       \E r \in DOMAIN df.rows : \A c \in DOMAIN x : x[c] = r[c]

\* C5: when `after` differs from `before` only in cells that became NULL (same
\* keys, each once), the bad rows are exactly the rows in which a cell became
\* NULL: bad_row_count() counts them, original_problem_rows() returns them with
\* the before values and converted_problem_rows() with the after values.
NulledRowsAreTheBadRows ==
  LET b == args.before
      a == args.after
      pk == args.primary_key_column
      K == NulledKeys(b, a, pk)
  IN  (pc # "new" /\ ConversionOnly(b, a, pk) /\ K # {}) =>
        /\ pc = "ok"
        /\ bad_row_count(bad_row_column_comparison) = Cardinality(K)
        /\ result.op = "original_problem_rows" => ReturnsRowsOf(b, K, pk)
        /\ result.op = "converted_problem_rows" => ReturnsRowsOf(a, K, pk)

\* Two rows, a cell became NULL in one of them only, and the converted rows
\* were asked for.
WitnessC5 ==
  /\ pc = "ok"
  /\ ConversionOnly(before_df, after_df, primary_key_column)
  /\ BagCardinality(before_df.rows) = 2
  /\ Cardinality(NulledKeys(before_df, after_df, primary_key_column)) = 1
  /\ result.op = "converted_problem_rows"
  /\ ~result.full_row

\* ------------------------------------------------------------------ C6
\* C6: original_problem_rows(full_row=True) returns rows with all of
\* `before`'s columns, as many rows and the same keys as
\* original_problem_rows(full_row=False).
FullRowsSameKeys ==
  (pc = "ok" /\ result.op = "original_problem_rows" /\ result.full_row) =>
    LET part == original_problem_rows(FALSE)
        keys(df) == {<<x[1][primary_key_column], x[2]>> : x \in Copies(df.rows)}
    IN  /\ result.value.columns = before_df.columns
        /\ \A r \in DOMAIN result.value.rows : DOMAIN r = Range(before_df.columns)
        /\ Cardinality(Copies(result.value.rows)) = Cardinality(Copies(part.rows))
        /\ {x[primary_key_column] : x \in DOMAIN result.value.rows}
             = {x[primary_key_column] : x \in DOMAIN part.rows}
        /\ \A k \in KeyValues :
             Cardinality({x \in Copies(result.value.rows) : x[1][primary_key_column] = k})
               = Cardinality({x \in Copies(part.rows) : x[1][primary_key_column] = k})

\* Full rows were returned, fewer than `before` has, wider than the projection.
WitnessC6 ==
  /\ pc = "ok"
  /\ result.op = "original_problem_rows"
  /\ result.full_row
  /\ BagCardinality(result.value.rows) = 1
  /\ BagCardinality(before_df.rows) = 2
  /\ Cardinality(DivergentNames) = 1

\* ------------------------------------------------------------------ C7
\* C7: a key occurring m times in `before` and n times in `after` gives m*n
\* joined pairs, each tested on its own, and bad_row_count() counts every
\* pair that passes.
DuplicateKeysMultiply ==
  pc = "ok" =>
    /\ \A k \in KeyValues :
         LET merged == Merged(before_df, after_df, primary_key_column)
             hasKey == [p \in DOMAIN merged |-> p.left[primary_key_column] = k]
             m == Cardinality({x \in Copies(before_df.rows) : x[1][primary_key_column] = k})
             n == Cardinality({y \in Copies(after_df.rows) : y[1][primary_key_column] = k})
         IN  Count(Where(merged, hasKey)) = m * n
    /\ bad_row_count(bad_row_column_comparison) = Cardinality(BadPairs)

\* One key, twice in each dataframe: four joined pairs, two of them bad.
WitnessC7 ==
  /\ pc = "ok"
  /\ Cardinality(JoinedPairs) = 4
  /\ Cardinality({xy[1][1][primary_key_column] : xy \in JoinedPairs}) = 1
  /\ bad_row_count(bad_row_column_comparison) = 2

\* ------------------------------------------------------------------ C9
\* C9: construction prints the summary exactly once when `quiet` is false and
\* never when it is true; it is printed after the divergent columns and the
\* comparison are computed and reports `before`'s shape, bad_row_count(),
\* bad_column_count() and one "<name> (<delta>)" per divergent column.
SummaryOnConstruction ==
  (pc \in {"ok", "TypeError"} /\ result = NoResult /\ ValidArgs) =>
    /\ Len(printed) = (IF args.quiet THEN 0 ELSE 1)
    /\ Len(SelectSeq(steps, LAMBDA st : st = "summary")) = Len(printed)
    /\ ~args.quiet =>
         /\ steps[Len(steps)] = "summary"
         /\ printed[1].original_rows = Cardinality(Copies(args.before.rows))
         /\ printed[1].original_columns = Len(args.before.columns)
         /\ printed[1].problem_rows = Cardinality(BadPairs)
         /\ printed[1].problem_columns = Cardinality(DivergentNames)
         /\ printed[1].details
              = [i \in DOMAIN differing_columns |->
                   <<differing_columns[i].column_name, differing_columns[i].difference>>]

\* ----------------------------------------------------------------- C10
\* C10: when every column has the same null count in both dataframes,
\* construction with a valid key completes, the divergent-column list is
\* empty, bad_column_count() is 0 and bad_row_count() is 0.
NoDivergenceCompletes ==
  (/\ pc # "new"
   /\ ValidArgs
   /\ \A c \in Range(args.before.columns) :
        NullCells(args.after, c) = NullCells(args.before, c))
    => /\ pc = "ok"
       /\ differing_columns = <<>>
       /\ bad_column_count(differing_columns) = 0
       /\ bad_row_count(bad_row_column_comparison) = 0

\* ------------------------------------------------------------------ C8
\* C8: after construction no query changes the two dataframes, the
\* divergent-column list, the key name or the bad-row comparison, and a query
\* repeated returns what it returned before.
QueriesChangeNothing ==
  [][pc = "ok" =>
       /\ UNCHANGED <<before_df, after_df, differing_columns,
                      primary_key_column, bad_row_column_comparison>>
       /\ (/\ result'.op = result.op
           /\ result.op \in {"original_problem_rows", "converted_problem_rows"}
                => result'.full_row = result.full_row)
            => result' = result]_vars

\* A query was answered with rows after the construction printed its summary.
WitnessC8 ==
  /\ pc = "ok"
  /\ ~args.quiet
  /\ result.op = "original_problem_rows"
  /\ BagCardinality(result.value.rows) > 0
====
